---- MODULE Spec2Model ----
(***************************************************************************)
(* Model of the temperature station: TemperatureStation                    *)
(* (temperature_station.py) with its polling threads, and the Modbus       *)
(* sensor RealTemperatureSensor (real_temperature_sensor.py).              *)
(*                                                                         *)
(* Temperatures are Python floats (IEEE-754 binary64).  A stored           *)
(* temperature is always the result of round(x, 2), that is the double     *)
(* nearest to n/100 for an integer n; the model stores n (hundredths of a  *)
(* degree) and computes float arithmetic exactly, on binary expansions.    *)
(***************************************************************************)
EXTENDS Integers, Sequences, FiniteSets, TLC

(***************************************************************************)
(* Natural numbers of arbitrary size as bit sequences, least significant   *)
(* bit first, without leading zeros (zero is the empty sequence).          *)
(***************************************************************************)
Max(a, b) == IF a > b THEN a ELSE b

BitAt(a, i) == IF i >= 1 /\ i <= Len(a) THEN a[i] ELSE 0

\* a without its leading (most significant) zeros
Trim(a) ==
  LET ones == {i \in 1..Len(a) : a[i] = 1}
  IN  IF ones = {} THEN <<>>
      ELSE SubSeq(a, 1, CHOOSE i \in ones : \A j \in ones : j <= i)

RECURSIVE NatBits(_)
NatBits(n) == IF n = 0 THEN <<>> ELSE <<n % 2>> \o NatBits(n \div 2)

RECURSIVE BitsNat(_)
BitsNat(a) == IF Len(a) = 0 THEN 0 ELSE a[1] + 2 * BitsNat(Tail(a))

\* the carry into position i of a + b: some lower position generates a carry
\* that every position in between propagates
Carry(a, b, i) ==
  \E j \in 1..(i - 1) :
     /\ BitAt(a, j) + BitAt(b, j) = 2
     /\ \A l \in (j + 1)..(i - 1) : BitAt(a, l) + BitAt(b, l) >= 1

BAdd(a, b) ==
  Trim([i \in 1..(Max(Len(a), Len(b)) + 1) |->
          (BitAt(a, i) + BitAt(b, i) + (IF Carry(a, b, i) THEN 1 ELSE 0)) % 2])

\* the borrow into position i of a - b
Borrow(a, b, i) ==
  \E j \in 1..(i - 1) :
     /\ BitAt(a, j) < BitAt(b, j)
     /\ \A l \in (j + 1)..(i - 1) : BitAt(a, l) <= BitAt(b, l)

\* a - b for a >= b
BSub(a, b) ==
  Trim([i \in 1..Len(a) |->
          (2 + BitAt(a, i) - BitAt(b, i) - (IF Borrow(a, b, i) THEN 1 ELSE 0)) % 2])

\* a < b
BLess(a, b) ==
  \E i \in 1..Max(Len(a), Len(b)) :
     /\ BitAt(a, i) < BitAt(b, i)
     /\ \A l \in (i + 1)..Max(Len(a), Len(b)) : BitAt(a, l) = BitAt(b, l)

BShl(a, k) == IF Len(a) = 0 \/ k <= 0 THEN a ELSE [i \in 1..k |-> 0] \o a

BShr(a, k) == IF k >= Len(a) THEN <<>> ELSE SubSeq(a, k + 1, Len(a))

\* some bit among the k lowest is set
BSticky(a, k) == \E i \in 1..k : BitAt(a, i) = 1

(***************************************************************************)
(* A double is [neg, mant, exp], of value (-1)^neg * mant * 2^exp, with    *)
(* mant odd and below 2^53, or zero.  The values of the model stay far     *)
(* from the overflow and subnormal ranges.                                 *)
(***************************************************************************)
MantBits == 53

FZero == [neg |-> FALSE, mant |-> <<>>, exp |-> 0]

\* the canonical form: the mantissa without its trailing zeros
FNorm(neg, m, e) ==
  LET ones == {i \in 1..Len(m) : m[i] = 1}
      low  == CHOOSE i \in ones : \A j \in ones : i <= j
  IN  IF ones = {} THEN FZero
      ELSE [neg |-> neg, mant |-> SubSeq(m, low, Len(m)), exp |-> e + low - 1]

\* the double nearest to (-1)^neg * m * 2^e, ties to even
FRound(neg, m, e) ==
  IF Len(m) <= MantBits THEN FNorm(neg, m, e)
  ELSE LET drop == Len(m) - MantBits
           quo  == BShr(m, drop)
           up   == m[drop] = 1 /\ (BSticky(m, drop - 1) \/ quo[1] = 1)
       IN  FNorm(neg, IF up THEN BAdd(quo, <<1>>) ELSE quo, e + drop)

\* the sum of two doubles as an exact dyadic [neg, mant, exp]
FExactAdd(f, g) ==
  LET lo == IF f.exp < g.exp THEN f.exp ELSE g.exp
      mx == BShl(f.mant, f.exp - lo)
      my == BShl(g.mant, g.exp - lo)
  IN  IF f.neg = g.neg THEN [neg |-> f.neg, mant |-> BAdd(mx, my), exp |-> lo]
      ELSE IF mx = my THEN FZero
      ELSE IF BLess(mx, my) THEN [neg |-> g.neg, mant |-> BSub(my, mx), exp |-> lo]
      ELSE [neg |-> f.neg, mant |-> BSub(mx, my), exp |-> lo]

FNeg(f) == IF f.mant = <<>> THEN f ELSE [f EXCEPT !.neg = ~f.neg]

\* float x + y
FAdd(f, g) == LET s == FExactAdd(f, g) IN FRound(s.neg, s.mant, s.exp)

\* float x - y
FSub(f, g) == FAdd(f, FNeg(g))

\* float x < y
FLess(f, g) == LET d == FExactAdd(f, FNeg(g)) IN d.neg /\ d.mant # <<>>

\* n as exactly w bits, least significant first (n < 2^w)
FixedBits(n, w) == [i \in 1..w |-> BitAt(NatBits(n), i)]

ChunkBits == 10
Chunk == 1024
Chunks == 7

\* the first k * ChunkBits binary digits of r/den (0 <= r < den), least
\* significant first, behind one sticky bit for the digits left out
RECURSIVE FracBits(_, _, _)
FracBits(r, den, k) ==
  IF k = 0 THEN <<IF r = 0 THEN 0 ELSE 1>>
  ELSE FracBits((Chunk * r) % den, den, k - 1)
         \o FixedBits((Chunk * r) \div den, ChunkBits)

\* the double nearest to n/den: int / int true division, which is also the
\* float value of the decimal literal n/den for den a power of ten
FDiv(n, den) ==
  LET abs  == IF n < 0 THEN -n ELSE n
      bits == Trim(FracBits(abs % den, den, Chunks) \o NatBits(abs \div den))
  IN  FRound(n < 0, bits, -(Chunks * ChunkBits + 1))

\* round(x * 10^2) to the nearest integer, ties to even, on the exact value of
\* the double x: the integer n such that Python's round(x, 2) is float(n/100)
RoundHundredths(f) ==
  LET m100 == BAdd(BAdd(BShl(f.mant, 6), BShl(f.mant, 5)), BShl(f.mant, 2))
      drop == -f.exp
      quo  == IF drop <= 0 THEN BShl(m100, f.exp) ELSE BShr(m100, drop)
      up   == /\ drop > 0
              /\ BitAt(m100, drop) = 1
              /\ (BSticky(m100, drop - 1) \/ BitAt(quo, 1) = 1)
      res  == BitsNat(quo) + (IF up THEN 1 ELSE 0)
  IN  IF f.neg THEN -res ELSE res

(***************************************************************************)
(* Constants of the program and bounds of the model.                       *)
(*                                                                         *)
(* A Python value that may be None is a sequence of length at most one:    *)
(* None is <<>> and the value v is <<v>>.                                  *)
(***************************************************************************)
None == <<>>
Some(v) == <<v>>

\* temperature_history keeps the last 100 readings
HistoryCap == 100

\* _get_simulated_temperatures: base temperatures, in tenths of a degree
BaseTemp1 == 50
BaseTemp2 == 240

\* values random.uniform(-5.0, 8.0) and random.uniform(-4.0, 7.0) return, in
\* thousandths of a degree
Uniform1 == {5060}
Uniform2 == {-3940, -3930}

\* the ends of the two ranges of random.uniform, values next to them that
\* round to the ends, and a value in between: for the runs on the ranges
DrawUniform1 == {-5000, -4996, 1500, 7996, 8000}
DrawUniform2 == {-4000, -3996, 1500, 6996, 7000}

\* values the sensor's registers hold: signed, in tenths of a degree
Registers == {50, 150}
AgainRegisters == {50}

\* threshold_difference, in hundredths of a degree (the default is 10.0)
DefaultThreshold == 1000

\* str(e) of the exceptions the sensor's methods catch
ErrOpen == "could not open port"
ErrTest == "no answer to the test read"
ErrRead == "no answer to the read"
ErrAttr == "'NoneType' object has no attribute"

\* the model stops polling after MaxReadings appends, and start_detection
\* spawns at most MaxStarts threads; for the station with a real sensor,
\* after SensorReadings appends and at most SensorStarts threads
MaxReadings == 3
MaxStarts == 2
SensorReadings == 2
SensorStarts == 1

\* for the runs that fill the history: CapExtra appends beyond its capacity,
\* at most CapStarts threads, one simulated value per channel
CapExtra == 3
CapStarts == 2
CapUniform2 == {-3940}

\* for the runs on the ranges of the simulated values: the readings taken
DrawReadings == 2

\* for the runs under fair scheduling: the readings taken while a station with
\* a real sensor runs, those of a simulated station, and the sessions started
LiveReadings == 2
LiveSimulated == 4
LiveStarts == 2

\* for the runs of a hardware-backed station that is started again: the
\* sessions and the readings taken
AgainStarts == 2
AgainReadings == 1

Threads == 1..MaxStarts

(***************************************************************************)
(* Pure functions of the station.  A float that has not been rounded yet   *)
(* is kept as the input it comes from: [src |-> "sim1", val |-> u] is      *)
(* 5.0 + u/1000, [src |-> "sim2", val |-> u] is 24.0 + u/1000 and          *)
(* [src |-> "reg", val |-> r] is r/10.                                     *)
(***************************************************************************)
\* _get_simulated_temperatures with base temperatures one degree higher
GetSimulatedTemperaturesHigher(u1, u2) ==
  [channel1 |-> FAdd(FDiv(BaseTemp1 + 10, 10), FDiv(u1, 1000)),
   channel2 |-> FAdd(FDiv(BaseTemp2 + 10, 10), FDiv(u2, 1000))]

\* _get_simulated_temperatures, for the values u1, u2 random.uniform returns
GetSimulatedTemperatures(u1, u2) ==
  [channel1 |-> FAdd(FDiv(BaseTemp1, 10), FDiv(u1, 1000)),
   channel2 |-> FAdd(FDiv(BaseTemp2, 10), FDiv(u2, 1000))]

\* read_register(number_of_decimals=1, signed=True), then float(): register / 10
RegisterValue(reg) == FDiv(reg, 10)

\* round(f, 2), as the number of hundredths of the result
Round2(f) == RoundHundredths(f)

\* the float that a stored temperature of n hundredths is
Stored(n) == FDiv(n, 100)

\* get_status: channel2 - channel1 on the stored temperatures
Difference(c1, c2) == FSub(Stored(c2), Stored(c1))

\* get_status: temperature_difference < self.threshold_difference
IsAbnormal(c1, c2, threshold) == FLess(Difference(c1, c2), Stored(threshold))

\* the operators above, computed once for the values the model draws
SimCents1 ==
  [u \in Uniform1 \cup DrawUniform1 |->
     Round2(GetSimulatedTemperatures(u, 0).channel1)]
SimCents2 ==
  [u \in Uniform2 \cup DrawUniform2 |->
     Round2(GetSimulatedTemperatures(0, u).channel2)]
RegCents == [r \in Registers |-> Round2(RegisterValue(r))]

Rounded(raw) ==
  IF raw.src = "sim1" THEN SimCents1[raw.val]
  ELSE IF raw.src = "sim2" THEN SimCents2[raw.val]
  ELSE RegCents[raw.val]

Cents1 == {SimCents1[u] : u \in Uniform1} \cup {RegCents[r] : r \in Registers}
Cents2 == {SimCents2[u] : u \in Uniform2} \cup {RegCents[r] : r \in Registers}

Thresholds == {DefaultThreshold}

DifferenceOf == [c1 \in Cents1, c2 \in Cents2 |-> Difference(c1, c2)]
AbnormalOf ==
  [c1 \in Cents1, c2 \in Cents2, th \in Thresholds |-> IsAbnormal(c1, c2, th)]

\* Assessment with is_abnormal starting as True
AssessmentAbnormalFirst(temps, threshold) ==
  IF temps.channel1 # None /\ temps.channel2 # None
  THEN [current_difference |->
            Some(DifferenceOf[temps.channel1[1], temps.channel2[1]]),
        is_abnormal |->
            Some(AbnormalOf[temps.channel1[1], temps.channel2[1], threshold])]
  ELSE [current_difference |-> None, is_abnormal |-> Some(TRUE)]

\* get_status: is_abnormal = False; temperature_difference = None; if both
\* current temperatures are not None: the difference, and
\* is_abnormal = temperature_difference < self.threshold_difference
Assessment(temps, threshold) ==
  IF temps.channel1 # None /\ temps.channel2 # None
  THEN [current_difference |->
            Some(DifferenceOf[temps.channel1[1], temps.channel2[1]]),
        is_abnormal |->
            Some(AbnormalOf[temps.channel1[1], temps.channel2[1], threshold])]
  ELSE [current_difference |-> None, is_abnormal |-> Some(FALSE)]

\* AppendReading with insert(0, reading) in place of append(reading)
AppendReadingFirst(h, reading) == <<reading>> \o h

\* temperature_history.append(reading)
AppendReading(h, reading) == Append(h, reading)

\* Cleared without the clear
ClearedNot(h) == h

\* temperature_history.clear()
Cleared(h) == <<>>

\* Evicted with the test off by one
EvictedLate(h) == IF Len(h) > HistoryCap + 1 THEN Tail(h) ELSE h

\* Evicted with pop() in place of pop(0)
EvictedNewest(h) == IF Len(h) > HistoryCap THEN SubSeq(h, 1, Len(h) - 1) ELSE h

\* if len(temperature_history) > 100: temperature_history.pop(0)
Evicted(h) == IF Len(h) > HistoryCap THEN Tail(h) ELSE h

(***************************************************************************)
(* export_to_csv.  A field of a row is the sequence of its characters (the *)
(* texts the code gives are kept whole); a row is the sequence of its      *)
(* fields and the file the sequence of its rows.  A timestamp is the       *)
(* number of seconds since the midnight before the station was made.       *)
(***************************************************************************)
StationName == "Temperature Station"
StationId == 1

Digit == <<"0", "1", "2", "3", "4", "5", "6", "7", "8", "9">>

\* str(n) of an int n >= 0
RECURSIVE Digits(_)
Digits(n) == IF n < 10 THEN <<Digit[n + 1]>>
             ELSE Append(Digits(n \div 10), Digit[(n % 10) + 1])

\* what csv.writer writes for a stored temperature: str() of the float that
\* c hundredths are, the shortest text that reads back as that float
Repr(c) ==
  LET abs == IF c < 0 THEN 0 - c ELSE c
      frac == abs % 100
  IN  (IF c < 0 THEN <<"-">> ELSE <<>>)
      \o Digits(abs \div 100) \o <<".">>
      \o (IF frac % 10 = 0 THEN <<Digit[(frac \div 10) + 1]>>
          ELSE <<Digit[(frac \div 10) + 1], Digit[(frac % 10) + 1]>>)

\* timestamp.strftime('%Y-%m-%d %H:%M:%S')
Strftime(ts) ==
  LET two(k) == <<Digit[(k \div 10) + 1], Digit[(k % 10) + 1]>>
  IN  <<"YYYY-mm-dd ">> \o two((ts \div 3600) % 24) \o <<":">>
      \o two((ts \div 60) % 60) \o <<":">> \o two(ts % 60)

\* writer.writerow([...]) of the header
Header == << <<"Timestamp">>, <<"Channel1_Temperature_Celsius">>,
            <<"Channel2_Temperature_Celsius">>, <<"Station_Name">>,
            <<"Station_ID">> >>

\* the row of a reading
CsvRow(reading) ==
  << Strftime(reading.timestamp),
     Repr(reading.channel1_temperature),
     Repr(reading.channel2_temperature),
     <<StationName>>,
     Digits(StationId) >>

\* Written that puts the row first
WrittenFirst(rows, row) == <<row>> \o rows

\* writer.writerow(row) on the rows written so far
Written(rows, row) == Append(rows, row)

(***************************************************************************)
(* State.                                                                  *)
(***************************************************************************)
VARIABLES
  use_real_sensor,         \* TemperatureStation: fixed at construction
  threshold_difference,    \* fixed at construction, in hundredths
  is_running,
  thread,                  \* the Thread start_detection created last, or None
  current_temperatures,    \* [channel1, channel2], each None or hundredths
  temperature_history,     \* sequence of readings
  lock,                    \* None, or the polling thread inside "with self.lock"
  sensor_connection_error,
  instrument,              \* RealTemperatureSensor: the handle, or None
  is_connected,
  last_error,
  poller,                  \* per polling thread: position and local variables
  owner,                   \* position of the owning context in its current call
  status,                  \* the dictionary get_status builds and returns
  history_copy,            \* what get_temperature_history returned
  copied,                  \* whether the list returned is a list of its own
  stopped_at,              \* the clock when stop_detection cleared is_running
  clock,                   \* datetime.now(): one tick per captured reading
  appended,                \* history: every reading appended since the last clear
  current_by,              \* history: the thread that wrote current_temperatures
  after_start,             \* history: history_copy was taken right after a
                           \* start_detection that started a session
  exported,                \* owner: the rows export_to_csv has written
  snapshot                 \* history: temperature_history when export_to_csv
                           \* took the lock

vars == <<use_real_sensor, threshold_difference, is_running, thread,
          current_temperatures, temperature_history, lock,
          sensor_connection_error, instrument, is_connected, last_error,
          poller, owner, status, history_copy, clock, appended, current_by,
          after_start, exported, snapshot, copied, stopped_at>>

config == <<use_real_sensor, threshold_difference>>
sensor == <<instrument, is_connected, last_error>>
shared == <<current_temperatures, temperature_history, lock, clock, appended, current_by>>
export == <<exported, snapshot>>
results == <<status, history_copy, after_start, copied, stopped_at, export>>

NoTemperatures == [channel1 |-> None, channel2 |-> None]

Unborn == [pc |-> "unborn", ch |-> 0, temperatures |-> NoTemperatures, error |-> None]

\* TemperatureStation.__init__ for a simulated station
InitStation ==
  /\ threshold_difference \in Thresholds
  /\ is_running = FALSE
  /\ thread = None
  /\ current_temperatures = NoTemperatures
  /\ temperature_history = <<>>
  /\ lock = None
  /\ poller = [t \in Threads |-> Unborn]
  /\ owner = "idle"
  /\ status = None
  /\ history_copy = None
  /\ copied = TRUE
  /\ stopped_at = None
  /\ clock = 0
  /\ appended = <<>>
  /\ current_by = None
  /\ after_start = FALSE
  /\ exported = None
  /\ snapshot = None

\* __init__ without a real sensor: self.real_sensor = None
InitSimulated ==
  /\ use_real_sensor = FALSE
  /\ instrument = None
  /\ is_connected = FALSE
  /\ last_error = None
  /\ sensor_connection_error = None

\* __init__ with a real sensor: setup_sensor() succeeded, or failed opening the
\* port, or failed at the test read
InitReal ==
  /\ use_real_sensor = TRUE
  /\ \/ /\ instrument = Some("Instrument")
        /\ is_connected = TRUE
        /\ last_error = None
     \/ /\ instrument = None
        /\ is_connected = FALSE
        /\ last_error = Some(ErrOpen)
     \/ /\ instrument = Some("Instrument")
        /\ is_connected = FALSE
        /\ last_error = Some(ErrTest)
  /\ sensor_connection_error = last_error

(***************************************************************************)
(* The polling thread: TemperatureStation._detection_loop, with the calls  *)
(* it makes into RealTemperatureSensor.  poller[t].pc is the statement     *)
(* thread t executes next.                                                 *)
(***************************************************************************)
At(t, pc) == poller[t].pc = pc

Goto(t, pc) == poller' = [poller EXCEPT ![t].pc = pc]

\* read_temperature returns v for channel poller[t].ch: read_all_temperatures
\* goes on with channel 2, and then returns to _detection_loop
Returned(t, v) ==
  LET ch == poller[t].ch IN
  poller' = [poller EXCEPT
    ![t].temperatures =
        IF ch = 1 THEN [@ EXCEPT !.channel1 = v] ELSE [@ EXCEPT !.channel2 = v],
    ![t].ch = IF ch = 1 THEN 2 ELSE 0,
    ![t].pc = IF ch = 1 THEN "check" ELSE "status"]

\* a loop that skips its cycle, and goes on, when is_running is false
LoopTopSkips(t) ==
  /\ At(t, "loop")
  /\ poller' = [poller EXCEPT
       ![t].temperatures = NoTemperatures,
       ![t].ch = IF is_running /\ use_real_sensor THEN 1 ELSE 0,
       ![t].pc = IF ~is_running THEN "sleep"
                 ELSE IF use_real_sensor THEN "check" ELSE "simulate"]
  /\ UNCHANGED <<config, is_running, thread, shared, sensor_connection_error,
                 sensor, owner, results>>

\* a loop that, after a cycle that fell back to the simulation, simulates
\* without asking the sensor
LoopTopStaysSimulated(t) ==
  /\ At(t, "loop")
  /\ LET real == /\ use_real_sensor
                 /\ ~(/\ poller[t].temperatures.channel1 # None
                      /\ poller[t].temperatures.channel1[1].src = "sim1")
     IN  poller' = [poller EXCEPT
           ![t].temperatures = NoTemperatures,
           ![t].ch = IF is_running /\ real THEN 1 ELSE 0,
           ![t].pc = IF ~is_running THEN "done"
                     ELSE IF real THEN "check" ELSE "simulate"]
  /\ UNCHANGED <<config, is_running, thread, shared, sensor_connection_error,
                 sensor, owner, results>>

\* while self.is_running: temperatures = {None, None};
\* if self.use_real_sensor and self.real_sensor: ... else: ...
LoopTop(t) ==
  /\ At(t, "loop")
  /\ poller' = [poller EXCEPT
       ![t].temperatures = NoTemperatures,
       ![t].ch = IF is_running /\ use_real_sensor THEN 1 ELSE 0,
       ![t].pc = IF ~is_running THEN "done"
                 ELSE IF use_real_sensor THEN "check" ELSE "simulate"]
  /\ UNCHANGED <<config, is_running, thread, shared, sensor_connection_error,
                 sensor, owner, results>>

\* read_temperature: if not self.is_connected ...
ReadCheck(t) ==
  /\ At(t, "check")
  /\ Goto(t, IF ~is_connected THEN "setup_open" ELSE "check_handle")
  /\ UNCHANGED <<config, is_running, thread, shared, sensor_connection_error,
                 sensor, owner, results>>

\* read_temperature: ... or self.instrument is None
ReadCheckHandle(t) ==
  /\ At(t, "check_handle")
  /\ Goto(t, IF instrument = None THEN "setup_open" ELSE "read")
  /\ UNCHANGED <<config, is_running, thread, shared, sensor_connection_error,
                 sensor, owner, results>>

\* setup_sensor: minimalmodbus.Instrument(port, address) opens the port
SetupOpenOk(t) ==
  /\ At(t, "setup_open")
  /\ instrument' = Some("Instrument")
  /\ Goto(t, "setup_test")
  /\ UNCHANGED <<config, is_running, thread, shared, sensor_connection_error,
                 is_connected, last_error, owner, results>>

\* setup_sensor: the constructor raises; except: self.is_connected = False
SetupOpenFails(t) ==
  /\ At(t, "setup_open")
  /\ is_connected' = FALSE
  /\ Goto(t, "setup_err_open")
  /\ UNCHANGED <<config, is_running, thread, shared, sensor_connection_error,
                 instrument, last_error, owner, results>>

\* setup_sensor: the serial settings and the call of the test read load
\* self.instrument (an AttributeError when disconnect() made it None)
SetupLoad(t) ==
  /\ At(t, "setup_test")
  /\ Goto(t, IF instrument = None THEN "setup_attr" ELSE "setup_wait")
  /\ UNCHANGED <<config, is_running, thread, shared, sensor_connection_error,
                 sensor, owner, results>>

\* setup_sensor: the test read of register 0 answers
SetupTestOk(t) ==
  /\ At(t, "setup_wait")
  /\ Goto(t, "setup_mark")
  /\ UNCHANGED <<config, is_running, thread, shared, sensor_connection_error,
                 sensor, owner, results>>

\* setup_sensor: the test read raises, or the AttributeError is raised;
\* except: self.is_connected = False
SetupTestFails(t) ==
  /\ At(t, "setup_wait") \/ At(t, "setup_attr")
  /\ is_connected' = FALSE
  /\ Goto(t, IF At(t, "setup_attr") THEN "setup_err_attr" ELSE "setup_err_test")
  /\ UNCHANGED <<config, is_running, thread, shared, sensor_connection_error,
                 instrument, last_error, owner, results>>

\* str(e) of the exception that setup_sensor has caught
SetupErrorAt(pc) ==
  IF pc = "setup_err_open" THEN ErrOpen
  ELSE IF pc = "setup_err_attr" THEN ErrAttr ELSE ErrTest

\* setup_sensor: except: self.last_error = str(e); return False;
\* read_temperature returns None
SetupError(t) ==
  /\ poller[t].pc \in {"setup_err_open", "setup_err_test", "setup_err_attr"}
  /\ last_error' = Some(SetupErrorAt(poller[t].pc))
  /\ Returned(t, None)
  /\ UNCHANGED <<config, is_running, thread, shared, sensor_connection_error,
                 instrument, is_connected, owner, results>>

\* setup_sensor: self.is_connected = True
SetupMark(t) ==
  /\ At(t, "setup_mark")
  /\ is_connected' = TRUE
  /\ Goto(t, "setup_clear")
  /\ UNCHANGED <<config, is_running, thread, shared, sensor_connection_error,
                 instrument, last_error, owner, results>>

\* setup_sensor: self.last_error = None; return True
SetupClear(t) ==
  /\ At(t, "setup_clear")
  /\ last_error' = None
  /\ Goto(t, "read")
  /\ UNCHANGED <<config, is_running, thread, shared, sensor_connection_error,
                 instrument, is_connected, owner, results>>

\* read_temperature: the call self.instrument.read_register(...) loads
\* self.instrument (an AttributeError when it is None)
ReadLoad(t) ==
  /\ At(t, "read")
  /\ Goto(t, IF instrument = None THEN "read_attr" ELSE "read_wait")
  /\ UNCHANGED <<config, is_running, thread, shared, sensor_connection_error,
                 sensor, owner, results>>

\* read_temperature: read_register answers; self.last_error = None;
\* return float(temperature)
ReadRegisterOk(t, R) ==
  /\ At(t, "read_wait")
  /\ \E reg \in R : Returned(t, Some([src |-> "reg", val |-> reg]))
  /\ last_error' = None
  /\ UNCHANGED <<config, is_running, thread, shared, sensor_connection_error,
                 instrument, is_connected, owner, results>>

\* a failed read whose except clause does not catch the AttributeError of a
\* handle that is None: the exception leaves _detection_loop
ReadRegisterRaises(t) ==
  /\ At(t, "read_wait") \/ At(t, "read_attr")
  /\ IF At(t, "read_attr")
     THEN /\ Goto(t, "raised")
          /\ UNCHANGED last_error
     ELSE /\ last_error' = Some(ErrRead)
          /\ Goto(t, "read_unmark")
  /\ UNCHANGED <<config, is_running, thread, shared, sensor_connection_error,
                 instrument, is_connected, owner, results>>

\* read_temperature: read_register raises (no answer), or the AttributeError
\* is raised; except: self.last_error = str(e)
ReadRegisterFails(t) ==
  /\ At(t, "read_wait") \/ At(t, "read_attr")
  /\ last_error' = Some(IF At(t, "read_attr") THEN ErrAttr ELSE ErrRead)
  /\ Goto(t, "read_unmark")
  /\ UNCHANGED <<config, is_running, thread, shared, sensor_connection_error,
                 instrument, is_connected, owner, results>>

\* read_temperature: except: self.is_connected = False; return None
ReadUnmark(t) ==
  /\ At(t, "read_unmark")
  /\ is_connected' = FALSE
  /\ Returned(t, None)
  /\ UNCHANGED <<config, is_running, thread, shared, sensor_connection_error,
                 instrument, last_error, owner, results>>

\* sensor_status = self.real_sensor.get_status(): 'is_connected':
\* self.is_connected
StatusConnected(t) ==
  /\ At(t, "status")
  /\ Goto(t, IF is_connected THEN "status_up" ELSE "status_error")
  /\ UNCHANGED <<config, is_running, thread, shared, sensor_connection_error,
                 sensor, owner, results>>

\* get_status: 'last_error': self.last_error (the loop uses it when the
\* sensor was not connected)
StatusError(t) ==
  /\ At(t, "status_error")
  /\ poller' = [poller EXCEPT ![t].error = last_error, ![t].pc = "status_down"]
  /\ UNCHANGED <<config, is_running, thread, shared, sensor_connection_error,
                 sensor, owner, results>>

\* a loop that stores what the sensor returned, with no fallback
SensorStatusNoFallback(t) ==
  /\ At(t, "status_up") \/ At(t, "status_down")
  /\ sensor_connection_error' = IF At(t, "status_down") THEN poller[t].error ELSE None
  /\ poller' = [poller EXCEPT ![t].error = None, ![t].pc = "update"]
  /\ UNCHANGED <<config, is_running, thread, shared, sensor, owner, results>>

\* if not sensor_status['is_connected']: self.sensor_connection_error =
\* sensor_status['last_error'], else: None; and the fallback test:
\* if temperatures['channel1'] is None or temperatures['channel2'] is None
SensorStatus(t) ==
  /\ At(t, "status_up") \/ At(t, "status_down")
  /\ sensor_connection_error' = IF At(t, "status_down") THEN poller[t].error ELSE None
  /\ poller' = [poller EXCEPT
       ![t].error = None,
       ![t].pc = IF \/ poller[t].temperatures.channel1 = None
                    \/ poller[t].temperatures.channel2 = None
                 THEN "simulate" ELSE "update"]
  /\ UNCHANGED <<config, is_running, thread, shared, sensor, owner, results>>

\* a fallback that simulates the absent channels only
SimulateAbsent(t, U1, U2) ==
  /\ At(t, "simulate")
  /\ \E u1 \in U1, u2 \in U2 :
       poller' = [poller EXCEPT
         ![t].temperatures =
            [channel1 |-> IF @.channel1 = None
                          THEN Some([src |-> "sim1", val |-> u1]) ELSE @.channel1,
             channel2 |-> IF @.channel2 = None
                          THEN Some([src |-> "sim2", val |-> u2]) ELSE @.channel2],
         ![t].pc = "update"]
  /\ UNCHANGED <<config, is_running, thread, shared, sensor_connection_error,
                 sensor, owner, results>>

\* temperatures = self._get_simulated_temperatures()
Simulate(t, U1, U2) ==
  /\ At(t, "simulate")
  /\ \E u1 \in U1, u2 \in U2 :
       poller' = [poller EXCEPT
         ![t].temperatures = [channel1 |-> Some([src |-> "sim1", val |-> u1]),
                              channel2 |-> Some([src |-> "sim2", val |-> u2])],
         ![t].pc = "update"]
  /\ UNCHANGED <<config, is_running, thread, shared, sensor_connection_error,
                 sensor, owner, results>>

\* if both temperatures are not None: with self.lock: current_temperatures =
\* the two rounded; timestamp = datetime.now(); temperature_history.append(...)
\* The model takes at most `limit` readings, and notes in a reading the thread
\* that appended it when `noted`.
Update(t, limit, noted) ==
  /\ At(t, "update")
  /\ LET temps == poller[t].temperatures IN
     IF temps.channel1 = None \/ temps.channel2 = None
     THEN /\ Goto(t, "sleep")
          /\ UNCHANGED shared
     ELSE /\ lock = None
          /\ clock < limit
          /\ lock' = Some(t)
          /\ LET c1 == Rounded(temps.channel1[1])
                 c2 == Rounded(temps.channel2[1])
                 reading == [timestamp |-> clock,
                             channel1_temperature |-> c1,
                             channel2_temperature |-> c2,
                             by |-> IF noted THEN t ELSE 0]
             IN  /\ current_temperatures' = [channel1 |-> Some(c1), channel2 |-> Some(c2)]
                 /\ temperature_history' = AppendReading(temperature_history, reading)
                 /\ appended' = Append(appended, reading)
          /\ current_by' = IF noted THEN Some(t) ELSE None
          /\ clock' = clock + 1
          /\ Goto(t, "evict")
  /\ UNCHANGED <<config, is_running, thread, sensor_connection_error, sensor,
                 owner, results>>

\* Evict that keeps the lock
EvictKeepsLock(t) ==
  /\ At(t, "evict")
  /\ temperature_history' = Evicted(temperature_history)
  /\ Goto(t, "sleep")
  /\ UNCHANGED <<config, is_running, thread, current_temperatures, clock, lock,
                 appended, current_by, sensor_connection_error, sensor, owner,
                 results>>

\* if len(self.temperature_history) > 100: self.temperature_history.pop(0);
\* and the end of "with self.lock"
Evict(t) ==
  /\ At(t, "evict")
  /\ temperature_history' = Evicted(temperature_history)
  /\ lock' = None
  /\ Goto(t, "sleep")
  /\ UNCHANGED <<config, is_running, thread, current_temperatures, clock,
                 appended, current_by, sensor_connection_error, sensor, owner,
                 results>>

\* a loop that tests self.is_running before its first iteration only
SleepSkipsTest(t) ==
  /\ At(t, "sleep")
  /\ Goto(t, "simulate")
  /\ UNCHANGED <<config, is_running, thread, shared, sensor_connection_error,
                 sensor, owner, results>>

\* time.sleep(1)
Sleep(t) ==
  /\ At(t, "sleep")
  /\ Goto(t, "loop")
  /\ UNCHANGED <<config, is_running, thread, shared, sensor_connection_error,
                 sensor, owner, results>>

(***************************************************************************)
(* The owning context: the calls the display layer makes.  owner is the    *)
(* statement it executes next; "idle" and "started" are its positions      *)
(* between two calls ("started": start_detection has just started a        *)
(* session).  A call drops what the previous call returned.  The entry     *)
(* "taken" of a status is not part of the dictionary: it notes the time    *)
(* of the call.                                                            *)
(***************************************************************************)
AtRest == owner \in {"idle", "started"}

NoExport == exported' = None /\ snapshot' = None

NoResults ==
  /\ status' = None
  /\ history_copy' = None
  /\ after_start' = FALSE
  /\ copied' = TRUE
  /\ stopped_at' = stopped_at
  /\ NoExport

\* start_detection without the test of is_running
StartDetectionAlways(starts) ==
  /\ AtRest
  /\ NoResults
  /\ lock = None
  /\ \E t \in 1..starts : At(t, "unborn")
  /\ temperature_history' = Cleared(temperature_history)
  /\ current_temperatures' = NoTemperatures
  /\ appended' = <<>>
  /\ current_by' = None
  /\ owner' = "start_spawn"
  /\ UNCHANGED <<lock, clock>>
  /\ UNCHANGED <<config, is_running, thread, sensor_connection_error, sensor,
                 poller>>

\* start_detection: if not self.is_running: with self.lock: clear the history
\* and the current temperatures.  Otherwise it returns at once.  The model
\* starts at most `starts` sessions.
\* start_detection without what it returns to the caller's earlier results:
\* if not self.is_running: with self.lock: clear the history and the current
\* temperatures
StartCall(starts) ==
  /\ AtRest
  /\ IF is_running
     THEN /\ owner' = "idle"
          /\ UNCHANGED shared
     ELSE /\ lock = None
          /\ \E t \in 1..starts : At(t, "unborn")
          /\ temperature_history' = Cleared(temperature_history)
          /\ current_temperatures' = NoTemperatures
          /\ appended' = <<>>
          /\ current_by' = None
          /\ owner' = "start_spawn"
          /\ UNCHANGED <<lock, clock>>
  /\ UNCHANGED <<config, is_running, thread, sensor_connection_error, sensor,
                 poller>>

StartDetection(starts) == StartCall(starts) /\ NoResults

\* start_detection: self.is_running = True; self.thread = Thread(...);
\* self.thread.start()
StartSpawn ==
  /\ owner = "start_spawn"
  /\ LET t == CHOOSE u \in Threads : At(u, "unborn") /\ \A w \in Threads : At(w, "unborn") => u <= w
     IN  /\ thread' = Some(t)
         /\ Goto(t, "loop")
  /\ is_running' = TRUE
  /\ owner' = "started"
  /\ UNCHANGED <<config, shared, sensor_connection_error, sensor, results>>

\* where stop_detection goes on after the join: if self.real_sensor: disconnect
AfterJoin == IF use_real_sensor THEN "disc_mark" ELSE "idle"

\* stop_detection that clears the history
StopDetectionClears ==
  /\ AtRest
  /\ NoResults
  /\ is_running' = FALSE
  /\ temperature_history' = <<>>
  /\ owner' = IF thread # None THEN "stop_join" ELSE AfterJoin
  /\ UNCHANGED <<config, thread, current_temperatures, lock, clock, appended,
                 current_by, sensor_connection_error, sensor, poller>>

\* stop_detection: self.is_running = False; if self.thread: ...
StopCall ==
  /\ AtRest
  /\ is_running' = FALSE
  /\ owner' = IF thread # None THEN "stop_join" ELSE AfterJoin
  /\ UNCHANGED <<config, thread, shared, sensor_connection_error, sensor, poller>>

StopDetection == StopCall /\ NoResults

\* self.thread.join(timeout=1): the thread has ended
JoinEnds ==
  /\ owner = "stop_join"
  /\ At(thread[1], "done")
  /\ owner' = AfterJoin
  /\ UNCHANGED <<config, is_running, thread, shared, sensor_connection_error,
                 sensor, poller, results>>

\* a join without a timeout: it returns when the thread has ended
JoinWithoutTimeout ==
  /\ owner = "stop_join"
  /\ At(thread[1], "done")
  /\ owner' = AfterJoin
  /\ UNCHANGED <<config, is_running, thread, shared, sensor_connection_error,
                 sensor, poller, results>>

\* self.thread.join(timeout=1): the second has passed, the thread is alive
JoinTimesOut ==
  /\ owner = "stop_join"
  /\ ~At(thread[1], "done")
  /\ owner' = AfterJoin
  /\ UNCHANGED <<config, is_running, thread, shared, sensor_connection_error,
                 sensor, poller, results>>

\* disconnect: close the serial port, ignoring a failure;
\* self.is_connected = False
DisconnectMark ==
  /\ owner = "disc_mark"
  /\ is_connected' = FALSE
  /\ owner' = "disc_null"
  /\ UNCHANGED <<config, is_running, thread, shared, sensor_connection_error,
                 instrument, last_error, poller, results>>

\* disconnect: self.instrument.serial.close() raises; except: pass;
\* self.is_connected = False
DisconnectCloseFails ==
  /\ owner = "disc_mark"
  /\ instrument # None
  /\ is_connected' = FALSE
  /\ owner' = "disc_null"
  /\ UNCHANGED <<config, is_running, thread, shared, sensor_connection_error,
                 instrument, last_error, poller, results>>

\* disconnect: self.instrument = None
DisconnectNull ==
  /\ owner = "disc_null"
  /\ instrument' = None
  /\ owner' = "idle"
  /\ UNCHANGED <<config, is_running, thread, shared, sensor_connection_error,
                 is_connected, last_error, poller, results>>

\* get_status: current_temps = self.get_current_temperatures(), a copy taken
\* with the lock held.  The other entries are filled by the next steps.
GetStatus ==
  /\ AtRest
  /\ lock = None
  /\ status' = Some([is_running |-> is_running,
                     current_temperatures |-> current_temperatures,
                     readings_count |-> 0,
                     threshold_difference |-> threshold_difference,
                     current_difference |-> None,
                     is_abnormal |-> Some(FALSE),
                     use_real_sensor |-> use_real_sensor,
                     sensor_connected |-> None,
                     sensor_error |-> None,
                     taken |-> clock])
  /\ history_copy' = None
  /\ after_start' = FALSE
  /\ copied' = TRUE
  /\ stopped_at' = stopped_at
  /\ NoExport
  /\ owner' = "gs_sensor"
  /\ UNCHANGED <<config, is_running, thread, shared, sensor_connection_error,
                 sensor, poller>>

\* get_status: sensor_status = self.real_sensor.get_status() for a real sensor;
\* then the difference and the abnormal flag of the copied temperatures
GetStatusSensor ==
  /\ owner = "gs_sensor"
  /\ LET st == status[1]
         as == Assessment(st.current_temperatures, st.threshold_difference)
     IN  status' = Some([st EXCEPT
           !.sensor_connected = IF use_real_sensor THEN Some(is_connected) ELSE None,
           !.current_difference = as.current_difference,
           !.is_abnormal = as.is_abnormal])
  /\ owner' = "gs_count"
  /\ UNCHANGED <<config, is_running, thread, shared, sensor_connection_error,
                 sensor, poller, history_copy, after_start, copied, stopped_at,
                 export>>

\* get_status: 'readings_count': len(self.temperature_history), read without
\* the lock
GetStatusCount ==
  /\ owner = "gs_count"
  /\ status' = Some([status[1] EXCEPT !.readings_count = Len(temperature_history)])
  /\ owner' = "gs_error"
  /\ UNCHANGED <<config, is_running, thread, shared, sensor_connection_error,
                 sensor, poller, history_copy, after_start, copied, stopped_at,
                 export>>

\* get_status: 'sensor_error': self.sensor_connection_error; and the return
GetStatusError ==
  /\ owner = "gs_error"
  /\ status' = Some([status[1] EXCEPT !.sensor_error = sensor_connection_error])
  /\ owner' = "idle"
  /\ UNCHANGED <<config, is_running, thread, shared, sensor_connection_error,
                 sensor, poller, history_copy, after_start, copied, stopped_at,
                 export>>

\* a get_temperature_history that returns self.temperature_history itself
CopiesNot == FALSE

\* get_temperature_history returns self.temperature_history.copy(), a new list
Copies == TRUE

\* get_temperature_history: with self.lock: return the history's copy
GetTemperatureHistory ==
  /\ AtRest
  /\ lock = None
  /\ history_copy' = Some(temperature_history)
  /\ copied' = Copies
  /\ stopped_at' = stopped_at
  /\ after_start' = (owner = "started")
  /\ status' = None
  /\ NoExport
  /\ owner' = "idle"
  /\ UNCHANGED <<config, is_running, thread, shared, sensor_connection_error,
                 sensor, poller>>

\* the owning context as the holder of the lock (the threads are 1, 2, ...)
Owner == 0

\* export_to_csv that iterates over the history without the lock
ExportToCsvUnlocked ==
  /\ AtRest
  /\ exported' = Some(Written(<<>>, Header))
  /\ snapshot' = Some(temperature_history)
  /\ status' = None
  /\ history_copy' = None
  /\ after_start' = FALSE
  /\ copied' = TRUE
  /\ stopped_at' = stopped_at
  /\ owner' = "export_rows"
  /\ UNCHANGED <<config, is_running, thread, shared, sensor_connection_error,
                 sensor, poller>>

\* export_to_csv: writer.writerow(header); with self.lock:
ExportToCsv ==
  /\ AtRest
  /\ lock = None
  /\ lock' = Some(Owner)
  /\ exported' = Some(Written(<<>>, Header))
  /\ snapshot' = Some(temperature_history)
  /\ status' = None
  /\ history_copy' = None
  /\ after_start' = FALSE
  /\ copied' = TRUE
  /\ stopped_at' = stopped_at
  /\ owner' = "export_rows"
  /\ UNCHANGED <<config, is_running, thread, current_temperatures,
                 temperature_history, clock, appended, current_by,
                 sensor_connection_error, sensor, poller>>

\* export_to_csv: for reading in self.temperature_history: writer.writerow(...)
\* The list's iterator yields the element at its index, the number of readings
\* it has yielded, while the index is below the length the list has then.
ExportRow ==
  /\ owner = "export_rows"
  /\ Len(exported[1]) - 1 < Len(temperature_history)
  /\ exported' = Some(Written(exported[1],
                              CsvRow(temperature_history[Len(exported[1])])))
  /\ UNCHANGED <<config, is_running, thread, shared, sensor_connection_error,
                 sensor, poller, owner, status, history_copy, after_start, copied,
                 stopped_at, snapshot>>

\* export_to_csv: the iterator is exhausted; the end of "with self.lock";
\* return output.getvalue()
ExportEnd ==
  /\ owner = "export_rows"
  /\ Len(exported[1]) - 1 >= Len(temperature_history)
  /\ lock' = None
  /\ owner' = "idle"
  /\ UNCHANGED <<config, is_running, thread, current_temperatures,
                 temperature_history, clock, appended, current_by,
                 sensor_connection_error, sensor, poller, results>>

(***************************************************************************)
(* The simulated station (use_real_sensor = False, the default) with its   *)
(* polling threads and its owning context.                                 *)
(***************************************************************************)
Init == InitStation /\ InitSimulated

\* the steps of a polling thread inside the sensor's methods, and the
\* statements of the loop that follow them; the registers answer with a
\* value of R
SensorPoller(t, R) ==
  \/ ReadCheck(t)
  \/ ReadCheckHandle(t)
  \/ SetupOpenOk(t)
  \/ SetupOpenFails(t)
  \/ SetupLoad(t)
  \/ SetupTestOk(t)
  \/ SetupTestFails(t)
  \/ SetupError(t)
  \/ SetupMark(t)
  \/ SetupClear(t)
  \/ ReadLoad(t)
  \/ ReadRegisterOk(t, R)
  \/ ReadRegisterFails(t)
  \/ ReadUnmark(t)
  \/ StatusConnected(t)
  \/ StatusError(t)
  \/ SensorStatus(t)

SimulatedPoller(t, U1, U2, limit, noted) ==
  \/ LoopTop(t)
  \/ Simulate(t, U1, U2)
  \/ Update(t, limit, noted)
  \/ Evict(t)
  \/ Sleep(t)

Next ==
  \/ StartDetection(MaxStarts)
  \/ StartSpawn
  \/ StopDetection
  \/ JoinEnds
  \/ JoinTimesOut
  \/ GetStatus
  \/ GetStatusSensor
  \/ GetStatusCount
  \/ GetStatusError
  \/ GetTemperatureHistory
  \/ \E t \in Threads : SimulatedPoller(t, Uniform1, Uniform2, MaxReadings, TRUE)

Spec == Init /\ [][Next]_vars

(***************************************************************************)
(* The station with a real sensor.                                         *)
(***************************************************************************)
InitSensor == InitStation /\ InitReal

NextSensor ==
  \/ StartDetection(SensorStarts)
  \/ StartSpawn
  \/ StopDetection
  \/ JoinEnds
  \/ JoinTimesOut
  \/ DisconnectMark
  \/ DisconnectCloseFails
  \/ DisconnectNull
  \/ GetStatus
  \/ GetStatusSensor
  \/ GetStatusCount
  \/ GetStatusError
  \/ \E t \in 1..SensorStarts :
       \/ SensorPoller(t, Registers)
       \/ SimulatedPoller(t, Uniform1, Uniform2, SensorReadings, TRUE)

SpecSensor == InitSensor /\ [][NextSensor]_vars

(***************************************************************************)
(* The hardware-backed station that is stopped and started again; the      *)
(* thread of the first session may have outlived its join.                 *)
(***************************************************************************)
NextAgain ==
  \/ StartDetection(AgainStarts)
  \/ StartSpawn
  \/ StopDetection
  \/ JoinEnds
  \/ JoinTimesOut
  \/ DisconnectMark
  \/ DisconnectCloseFails
  \/ DisconnectNull
  \/ \E t \in 1..AgainStarts :
       \/ SensorPoller(t, AgainRegisters)
       \/ SimulatedPoller(t, Uniform1, CapUniform2, AgainReadings, FALSE)

\* the sensor was connected when the station was made
InitAgain == InitSensor /\ is_connected

SpecAgain == InitAgain /\ [][NextAgain]_vars

(***************************************************************************)
(* The simulated station, polled until its history is full and beyond.     *)
(* The owning context starts sessions during the first CapExtra readings   *)
(* only; it stops them at any time.                                        *)
(***************************************************************************)
NextCap ==
  \/ clock <= CapExtra /\ StartDetection(CapStarts)
  \/ StartSpawn
  \/ StopDetection
  \/ JoinEnds
  \/ JoinTimesOut
  \/ \E t \in 1..CapStarts :
       SimulatedPoller(t, Uniform1, CapUniform2, HistoryCap + CapExtra, FALSE)

SpecCap == Init /\ [][NextCap]_vars

(***************************************************************************)
(* The same station when random.uniform gives channel 2 either of two      *)
(* values in the cycles that begin when the history is about to be full,   *)
(* or is full, so that the readings around an eviction differ.             *)
(***************************************************************************)
TurnUniform2 == IF clock >= HistoryCap - 1 THEN Uniform2 ELSE CapUniform2

NextTurn ==
  \/ clock <= CapExtra /\ StartDetection(CapStarts)
  \/ StartSpawn
  \/ StopDetection
  \/ JoinEnds
  \/ JoinTimesOut
  \/ \E t \in 1..CapStarts :
       SimulatedPoller(t, Uniform1, TurnUniform2, HistoryCap + CapExtra, FALSE)

SpecTurn == Init /\ [][NextTurn]_vars

(***************************************************************************)
(* The simulated station that is polled until its history is full and      *)
(* beyond, and whose history is exported while it is short or full.        *)
(***************************************************************************)
NextExport ==
  \/ clock <= CapExtra /\ StartDetection(CapStarts)
  \/ StartSpawn
  \/ StopDetection
  \/ JoinEnds
  \/ JoinTimesOut
  \/ (clock <= CapExtra \/ clock >= HistoryCap) /\ ExportToCsv
  \/ ExportRow
  \/ ExportEnd
  \/ \E t \in 1..CapStarts :
       SimulatedPoller(t, Uniform1, CapUniform2, HistoryCap + CapExtra, FALSE)

SpecExport == Init /\ [][NextExport]_vars

(***************************************************************************)
(* The simulated station that is polled until its history is full and      *)
(* beyond, and whose history is asked for while it is short or full.  The  *)
(* list that get_temperature_history returned stays with its caller        *)
(* through the calls and the polling cycles that follow.                   *)
(***************************************************************************)
NextCopy ==
  \/ clock <= CapExtra /\ StartCall(CapStarts) /\ UNCHANGED results
  \/ StartSpawn
  \/ StopCall /\ UNCHANGED results
  \/ JoinEnds
  \/ JoinTimesOut
  \/ (clock <= CapExtra \/ clock >= HistoryCap) /\ GetTemperatureHistory
  \/ \E t \in 1..CapStarts :
       SimulatedPoller(t, Uniform1, CapUniform2, HistoryCap + CapExtra, FALSE)

SpecCopy == Init /\ [][NextCopy]_vars

(***************************************************************************)
(* The simulated station with the clock of its last stop noted: the stop   *)
(* that cleared is_running since the last start, if there is one.          *)
(***************************************************************************)
replies == <<status, history_copy, after_start, copied, export>>

StartNoted ==
  /\ StartCall(MaxStarts)
  /\ stopped_at' = None
  /\ UNCHANGED replies

StopNoted ==
  /\ StopCall
  /\ stopped_at' = IF stopped_at = None THEN Some(clock) ELSE stopped_at
  /\ UNCHANGED replies

NextHalt ==
  \/ StartNoted
  \/ StartSpawn
  \/ StopNoted
  \/ JoinEnds
  \/ JoinTimesOut
  \/ \E t \in Threads : SimulatedPoller(t, Uniform1, CapUniform2, MaxReadings, TRUE)

SpecHalt == Init /\ [][NextHalt]_vars

(***************************************************************************)
(* The simulated station whose random.uniform returns the ends of its      *)
(* ranges and values next to them.                                         *)
(***************************************************************************)
NextDraw ==
  \/ StartDetection(SensorStarts)
  \/ StartSpawn
  \/ StopDetection
  \/ JoinEnds
  \/ JoinTimesOut
  \/ \E t \in 1..SensorStarts :
       SimulatedPoller(t, DrawUniform1, DrawUniform2, DrawReadings, FALSE)

SpecDraw == Init /\ [][NextDraw]_vars

(***************************************************************************)
(* The station, simulated or with a real sensor, with polling threads that *)
(* are scheduled fairly: a thread that can take its next step takes it,    *)
(* and a thread that waits for the lock gets it when it is free again and  *)
(* again.  Sensor input and output is one step and so it ends.  While the  *)
(* station runs the model takes LiveLimit readings; a thread that finds    *)
(* the station stopped is not held back.                                   *)
(***************************************************************************)
InitLive == InitStation /\ (InitSimulated \/ InitReal)

LiveLimit == IF use_real_sensor THEN LiveReadings ELSE LiveSimulated

LiveSessions == IF use_real_sensor THEN SensorStarts ELSE LiveStarts

\* the steps of _detection_loop in thread t, with those of the sensor's methods
PollerStep(t) ==
  \/ SensorPoller(t, Registers)
  \/ SimulatedPoller(t, Uniform1, CapUniform2,
                     IF is_running THEN LiveLimit ELSE clock + 1, FALSE)

NextLive ==
  \/ StartDetection(LiveSessions)
  \/ StartSpawn
  \/ StopDetection
  \/ JoinEnds
  \/ JoinTimesOut
  \/ DisconnectMark
  \/ DisconnectCloseFails
  \/ DisconnectNull
  \/ \E t \in 1..LiveStarts : PollerStep(t)

Fairness == \A t \in 1..LiveStarts : SF_vars(PollerStep(t))

SpecLive == InitLive /\ [][NextLive]_vars /\ Fairness

(***************************************************************************)
(* The same station when the owning context goes on with a stop_detection  *)
(* it has begun (the join ends or times out, the port closes), and the     *)
(* polling threads are not promised any step.                              *)
(***************************************************************************)
StopGoesOn ==
  \/ JoinEnds
  \/ JoinTimesOut
  \/ DisconnectMark
  \/ DisconnectCloseFails
  \/ DisconnectNull

SpecStop == InitLive /\ [][NextLive]_vars /\ WF_vars(StopGoesOn)

(***************************************************************************)
(* Properties.                                                             *)
(***************************************************************************)
Min(a, b) == IF a < b THEN a ELSE b

\* the n last elements of s
LastOf(s, n) == SubSeq(s, Len(s) - n + 1, Len(s))

\* the polling threads that execute _detection_loop
Live == {t \in Threads : ~At(t, "unborn") /\ ~At(t, "done")}

\* get_status has returned st
StatusReturned == status # None /\ owner = "idle"

\* C1: whenever the station lock is free, so that an observer can hold it,
\* the history has at most 100 readings, whatever the starts, stops and the
\* polling of one or several threads before.
C1_HistoryAtMostCap == lock = None => Len(temperature_history) <= HistoryCap

\* C1: the history is full, readings have been evicted, two threads poll
C1_Witness ==
  /\ lock = None
  /\ Len(temperature_history) = HistoryCap
  /\ Len(appended) > HistoryCap
  /\ Cardinality(Live) = 2

\* C2: outside a polling thread's critical section the history is the last
\* min(n, 100) of the n readings appended since the last clear, in the order
\* of their insertion: eviction removes the oldest reading only.
C2_FifoEviction ==
  lock = None =>
    temperature_history = LastOf(appended, Min(Len(appended), HistoryCap))

\* C2: two readings have been evicted, the history starts at the third
C2_Witness ==
  /\ lock = None
  /\ Len(appended) = HistoryCap + 2
  /\ temperature_history[1] = appended[3]
  /\ temperature_history[HistoryCap] = appended[HistoryCap + 2]

\* C3: at most one thread executes _detection_loop.
C3_OnePollingTask == Cardinality(Live) <= 1

\* the running session is not the first: a stop_detection came before its
\* start_detection
Restarted == thread # None /\ thread[1] > 1

\* C4, as claimed: the history read right after a start_detection that
\* followed a stop_detection is empty.
C4_EmptyRightAfterStart ==
  (after_start /\ Restarted) => history_copy = Some(<<>>)

\* C4, amended: the history read right after a start_detection that followed
\* a stop_detection holds no reading of before the clear: each of its readings
\* was appended after start_detection cleared the history.
C4_PriorHistoryDiscarded ==
  (after_start /\ Restarted) =>
    \A i \in 1..Len(history_copy[1]) :
       \E j \in 1..Len(appended) : appended[j] = history_copy[1][i]

\* C4: readings were taken before the second start, and the history read right
\* after it holds a reading already
C4_Witness ==
  /\ after_start
  /\ Restarted
  /\ clock > Len(appended)
  /\ history_copy # Some(<<>>)

\* C5: the history and the current temperatures hold no reading of a thread
\* that an earlier start_detection spawned.
C5_NoReadingOfEarlierSession ==
  /\ \A i \in 1..Len(temperature_history) : Some(temperature_history[i].by) = thread
  /\ current_by \in {None, thread}

\* stop_detection has returned and no start_detection has followed
Stopped ==
  /\ thread # None
  /\ ~is_running
  /\ owner \notin {"start_spawn", "stop_join", "disc_mark", "disc_null"}

\* C6: once stop_detection has returned, and until start_detection is called,
\* the sensor is disconnected and its handle released.
C6_StaysDisconnected == Stopped => (~is_connected /\ instrument = None)

\* thread t has completed a cycle that fell back to simulated values, and has
\* not begun the next one
FailedOver(t) ==
  /\ use_real_sensor
  /\ poller[t].pc \in {"sleep", "loop"}
  /\ poller[t].temperatures.channel1 # None
  /\ poller[t].temperatures.channel1[1].src = "sim1"

\* C7: a status taken after a cycle that fell back to simulated values, and
\* before the next cycle, reports the sensor as not connected, with an error.
C7_FailoverReported ==
  (StatusReturned /\ status[1].taken = clock /\ \E t \in Threads : FailedOver(t)) =>
    (status[1].sensor_connected = Some(FALSE) /\ status[1].sensor_error # None)

\* C8: a status with readings has current temperatures.
C8_ConsistentStatus ==
  StatusReturned =>
    (status[1].readings_count > 0 =>
       /\ status[1].current_temperatures.channel1 # None
       /\ status[1].current_temperatures.channel2 # None)

\* C9: the abnormal flag of a status with both temperatures is the comparison
\* of their difference, in hundredths of a degree, with the threshold: a
\* difference equal to the threshold is normal.
C9_AbnormalBelowThreshold ==
  (/\ StatusReturned
   /\ status[1].current_temperatures.channel1 # None
   /\ status[1].current_temperatures.channel2 # None) =>
    status[1].is_abnormal =
      Some(status[1].current_temperatures.channel2[1]
             - status[1].current_temperatures.channel1[1]
           < status[1].threshold_difference)

\* a status whose current temperatures are not both present
AbsentStatus ==
  /\ StatusReturned
  /\ \/ status[1].current_temperatures.channel1 = None
     \/ status[1].current_temperatures.channel2 = None

\* C10, as claimed: with a current temperature absent, the status reports the
\* difference and the abnormal flag as null.
C10_NullWhenAbsent ==
  AbsentStatus =>
    (status[1].current_difference = None /\ status[1].is_abnormal = None)

\* C10, amended: with a current temperature absent, the status reports the
\* difference as null and the abnormal flag as False.
C10_NullDifferenceNotAbnormal ==
  AbsentStatus =>
    (status[1].current_difference = None /\ status[1].is_abnormal = Some(FALSE))

\* C10: a status taken while the station runs and has no reading yet
C10_Witness == AbsentStatus /\ status[1].is_running

\* a step of thread t that ends the update of its cycle appends one reading to
\* the history and makes it the current temperatures; a cycle ends, at the
\* sleep, after such an update only
CycleStoresOneReading ==
  \A t \in Threads :
    /\ (At(t, "update") /\ poller'[t].pc # "update") =>
         /\ poller'[t].pc = "evict"
         /\ Len(appended') = Len(appended) + 1
         /\ temperature_history' = Append(temperature_history, appended'[Len(appended')])
         /\ current_temperatures' =
              [channel1 |-> Some(appended'[Len(appended')].channel1_temperature),
               channel2 |-> Some(appended'[Len(appended')].channel2_temperature)]
    /\ (poller'[t].pc = "sleep" /\ ~At(t, "sleep")) => At(t, "evict")

\* C11: every completed polling cycle, of a simulated station or of one with a
\* real sensor, whatever the sensor did, appends exactly one reading and makes
\* it the current temperatures; and while the station runs (and the model's
\* count of readings is not exhausted) a further reading is eventually stored
\* and the current temperatures are eventually present, unless the station is
\* stopped.
C11_StreamNeverStalls ==
  /\ [][CycleStoresOneReading]_vars
  /\ \A n \in 0..Max(LiveReadings, LiveSimulated) :
       (is_running /\ clock = n /\ n < LiveLimit) ~> (~is_running \/ clock > n)
  /\ (is_running /\ clock < LiveLimit)
       ~> (~is_running \/ (/\ current_temperatures.channel1 # None
                           /\ current_temperatures.channel2 # None))

\* C11: a station whose sensor was never opened has run without a stop and has
\* stored every reading the model takes
C11_Witness ==
  /\ use_real_sensor
  /\ instrument = None
  /\ is_running
  /\ thread = Some(1)
  /\ clock = LiveLimit
  /\ Len(temperature_history) = LiveLimit
  /\ current_temperatures.channel1 # None

\* both temperatures were read from the sensor's registers
FromSensor(temps) ==
  /\ temps.channel1 # None /\ temps.channel1[1].src = "reg"
  /\ temps.channel2 # None /\ temps.channel2[1].src = "reg"

\* both temperatures come from _get_simulated_temperatures
FromSimulation(temps) ==
  /\ temps.channel1 # None /\ temps.channel1[1].src = "sim1"
  /\ temps.channel2 # None /\ temps.channel2[1].src = "sim2"

\* the steps of thread t from the sensor's answer to the stored reading
CycleKeepsOneSource ==
  \A t \in Threads :
    LET temps == poller[t].temperatures
        after == poller'[t]
    IN  /\ (poller[t].pc \in {"status_up", "status_down"} /\ after.pc # poller[t].pc) =>
             IF temps.channel1 = None \/ temps.channel2 = None
             THEN after.pc = "simulate"
             ELSE after.pc = "update" /\ after.temperatures = temps /\ FromSensor(temps)
        /\ (At(t, "simulate") /\ after.pc # "simulate") =>
             after.pc = "update" /\ FromSimulation(after.temperatures)
        /\ (At(t, "update") /\ after.pc # "update") =>
             LET reading == appended'[Len(appended')] IN
             /\ FromSensor(temps) \/ FromSimulation(temps)
             /\ FromSensor(temps) =>
                  /\ reading.channel1_temperature = 10 * temps.channel1[1].val
                  /\ reading.channel2_temperature = 10 * temps.channel2[1].val
             /\ FromSimulation(temps) =>
                  /\ reading.channel1_temperature = SimCents1[temps.channel1[1].val]
                  /\ reading.channel2_temperature = SimCents2[temps.channel2[1].val]

\* C12: in a cycle of a station with a real sensor where a channel's read is
\* absent, both stored temperatures come from one call of
\* _get_simulated_temperatures; where both reads are present, the stored
\* reading holds the two register values; a stored reading never pairs a
\* sensor value with a simulated one.
C12_FallbackReplacesBoth == [][CycleKeepsOneSource]_vars

\* the temperatures, in hundredths, of the sensor and of the simulation
SensorCents == {RegCents[r] : r \in Registers}
SimulatedCents1 == {SimCents1[u] : u \in Uniform1}
SimulatedCents2 == {SimCents2[u] : u \in Uniform2}

\* C12: the history holds a reading of the sensor, and after it a reading of
\* a cycle that fell back to the simulation, just stored
C12_Witness ==
  /\ use_real_sensor
  /\ At(1, "evict")
  /\ FromSimulation(poller[1].temperatures)
  /\ Len(temperature_history) = 2
  /\ temperature_history[1].channel1_temperature \in SensorCents
  /\ temperature_history[1].channel2_temperature \in SensorCents
  /\ temperature_history[2].channel1_temperature \in SimulatedCents1
  /\ temperature_history[2].channel2_temperature \in SimulatedCents2

\* export_to_csv has returned exported
ExportReturned == owner = "idle" /\ exported # None

\* the digit a character is, and the number a text of digits is
DigitValue(ch) == CHOOSE d \in 0..9 : Digit[d + 1] = ch

RECURSIVE NatOf(_)
NatOf(chars) ==
  IF Len(chars) = 0 THEN 0
  ELSE 10 * NatOf(SubSeq(chars, 1, Len(chars) - 1)) + DigitValue(chars[Len(chars)])

\* the hundredths that the text of a float with at most two decimals reads as
CentsOf(chars) ==
  LET body == IF chars[1] = "-" THEN Tail(chars) ELSE chars
      dot == CHOOSE i \in 1..Len(body) : body[i] = "."
      decimals == SubSeq(body, dot + 1, Len(body))
      abs == 100 * NatOf(SubSeq(body, 1, dot - 1))
             + (IF Len(decimals) = 1 THEN 10 * NatOf(decimals) ELSE NatOf(decimals))
  IN  IF chars[1] = "-" THEN 0 - abs ELSE abs

\* the second of the day that the text of a timestamp reads as
SecondsOf(chars) ==
  3600 * NatOf(SubSeq(chars, 2, 3)) + 60 * NatOf(SubSeq(chars, 5, 6))
  + NatOf(SubSeq(chars, 8, 9))

\* C13: export_to_csv of an empty history returns the header row alone; of a
\* history of N readings, the header and N rows, of which row i reads as the
\* timestamp and the two temperatures of the i-th reading of the history, in
\* the order of insertion, followed by the station's name and id.
C13_HeaderAndRowsInOrder ==
  ExportReturned =>
    LET h == snapshot[1]
        rows == exported[1]
    IN  /\ Len(rows) = Len(h) + 1
        /\ rows[1] = Header
        /\ \A i \in 1..Len(h) :
             /\ Len(rows[i + 1]) = 5
             /\ SecondsOf(rows[i + 1][1]) = h[i].timestamp
             /\ CentsOf(rows[i + 1][2]) = h[i].channel1_temperature
             /\ CentsOf(rows[i + 1][3]) = h[i].channel2_temperature
             /\ rows[i + 1][4] = <<StationName>>
             /\ NatOf(rows[i + 1][5]) = StationId

\* C13: the export of a full history after two evictions: 100 rows, the first
\* of the third reading appended
C13_Witness ==
  /\ ExportReturned
  /\ Len(exported[1]) = HistoryCap + 1
  /\ snapshot[1] = LastOf(appended, HistoryCap)
  /\ Len(appended) = HistoryCap + 2
  /\ SecondsOf(exported[1][2][1]) = 2

\* the rows written are the header and the rows of the first readings of h
RowsOf(rows, h) ==
  /\ Len(rows) <= Len(h) + 1
  /\ rows[1] = Header
  /\ \A i \in 2..Len(rows) : rows[i] = CsvRow(h[i - 1])

\* C14: from the first row export_to_csv writes to its return the history is
\* the one it found when it began, no append, eviction or clear takes place,
\* and the rows written are the rows of that history, complete and in order.
C14_ExportOfOneInstant ==
  /\ owner = "export_rows" =>
       /\ lock = Some(Owner)
       /\ temperature_history = snapshot[1]
       /\ RowsOf(exported[1], snapshot[1])
  /\ ExportReturned =>
       /\ Len(exported[1]) = Len(snapshot[1]) + 1
       /\ RowsOf(exported[1], snapshot[1])

\* C14: half of a full history is exported while two threads are waiting to
\* append a reading, which will evict one
C14_Witness ==
  /\ owner = "export_rows"
  /\ Len(temperature_history) = HistoryCap
  /\ Len(exported[1]) = 51
  /\ \A t \in 1..CapStarts : At(t, "update")

\* C15: a call of start_detection while is_running is true changes neither the
\* history, nor the current temperatures, nor is_running, nor the thread, and
\* starts no thread: it returns at once.
C15_StartWhileRunningIsNoOp ==
  [][(is_running /\ StartDetection(MaxStarts)) =>
       /\ UNCHANGED <<temperature_history, current_temperatures, is_running,
                      thread, poller, lock>>
       /\ owner' = "idle"]_vars

\* C15: start_detection has returned at once on a running station that has
\* readings (no other call leaves the owning context idle with no result)
C15_Witness ==
  /\ is_running
  /\ owner = "idle"
  /\ status = None /\ history_copy = None
  /\ thread = Some(1)
  /\ At(1, "sleep")
  /\ Len(temperature_history) = 2
  /\ \A t \in Threads \ {1} : At(t, "unborn")

\* a step of stop_detection, with the disconnect it calls
StopStep ==
  \/ StopDetection
  \/ JoinEnds
  \/ JoinTimesOut
  \/ DisconnectMark
  \/ DisconnectCloseFails
  \/ DisconnectNull

\* C16: no step of stop_detection changes the history or the current
\* temperatures, and is_running is false after each; on a station that is
\* stopped already, is_running stays false and nothing changes but the
\* sensor's connection (is_connected, instrument).
C16_StopKeepsReadings ==
  [][StopStep =>
       /\ ~is_running'
       /\ UNCHANGED <<temperature_history, current_temperatures, appended,
                      current_by, clock, lock, thread, poller, config,
                      sensor_connection_error, last_error>>]_vars

\* C16: stop_detection on a station that an earlier stop_detection stopped and
\* disconnected (the handle is released and no error is noted), about to
\* disconnect again, with the readings of the session still in the history
C16_Witness ==
  /\ owner = "disc_mark"
  /\ ~is_running
  /\ instrument = None
  /\ last_error = None
  /\ At(1, "done")
  /\ Len(temperature_history) = SensorReadings

\* lo <= f <= hi, for a float f and whole degrees lo, hi
Within(f, lo, hi) == ~FLess(f, FDiv(lo, 1)) /\ ~FLess(FDiv(hi, 1), f)

\* whether _get_simulated_temperatures is within [0.0, 13.0] on channel 1 and
\* within [20.0, 31.0] on channel 2, for the values drawn
DrawnWithin1 ==
  [u \in DrawUniform1 |-> Within(GetSimulatedTemperatures(u, 0).channel1, 0, 13)]
DrawnWithin2 ==
  [u \in DrawUniform2 |-> Within(GetSimulatedTemperatures(0, u).channel2, 20, 31)]

\* C17: what _get_simulated_temperatures returns is within [0.0, 13.0] on
\* channel 1 and within [20.0, 31.0] on channel 2, at every draw; and so is
\* every temperature that a cycle with simulated values stores in the history
\* and in the current temperatures.
C17_SimulatedWithinRanges ==
  /\ \A t \in Threads :
       FromSimulation(poller[t].temperatures) =>
         /\ DrawnWithin1[poller[t].temperatures.channel1[1].val]
         /\ DrawnWithin2[poller[t].temperatures.channel2[1].val]
  /\ \A i \in 1..Len(temperature_history) :
       /\ temperature_history[i].channel1_temperature \in 0..1300
       /\ temperature_history[i].channel2_temperature \in 2000..3100
  /\ current_temperatures.channel1 # None => current_temperatures.channel1[1] \in 0..1300
  /\ current_temperatures.channel2 # None => current_temperatures.channel2[1] \in 2000..3100

\* C17: two draws have been stored, one at the lower ends of the two ranges
\* and one at the upper ends
C17_Witness ==
  /\ Len(temperature_history) = 2
  /\ temperature_history[1].channel1_temperature = 0
  /\ temperature_history[1].channel2_temperature = 2000
  /\ temperature_history[2].channel1_temperature = 1300
  /\ temperature_history[2].channel2_temperature = 3100

\* C18: a thread whose next statement reads or writes current_temperatures,
\* temperature_history or sensor_connection_error holds the lock: the polling
\* thread that sets sensor_connection_error or evicts, the owning context
\* that reads the length of the history or sensor_connection_error in
\* get_status, or the history in export_to_csv.
C18_SharedStateUnderLock ==
  /\ \A t \in Threads :
       poller[t].pc \in {"status_up", "status_down", "evict"} => lock = Some(t)
  /\ owner \in {"gs_count", "gs_error", "export_rows"} => lock = Some(Owner)

\* the statements of _detection_loop outside "with self.lock": the test of
\* the loop, the sensor's methods, the simulation and the sleep
OutsideUpdate ==
  {"loop", "check", "check_handle", "setup_open", "setup_test", "setup_attr",
   "setup_wait", "setup_mark", "setup_clear", "setup_err_open",
   "setup_err_test", "setup_err_attr", "read", "read_attr", "read_wait",
   "read_unmark", "status", "status_up", "status_error", "status_down",
   "simulate", "update", "sleep", "done", "unborn"}

\* C19: a polling thread holds the lock only between the update of the current
\* temperatures and the eviction: not when it sleeps, not when it calls the
\* sensor (connect, register reads, status), not when it simulates.
C19_LockOnlyAroundUpdate ==
  \A t \in Threads : poller[t].pc \in OutsideUpdate => lock # Some(t)

\* C19: the thread is at the register read of its second cycle and the lock
\* is free
C19_Witness ==
  /\ use_real_sensor
  /\ At(1, "read")
  /\ Len(temperature_history) = 1
  /\ lock = None

\* C20: when is_running is false, every thread that start_detection has
\* spawned eventually ends, unless start_detection sets is_running again.
C20_PollersEnd ==
  \A t \in 1..LiveStarts :
    (~is_running /\ ~At(t, "unborn")) ~> (is_running \/ At(t, "done"))

\* C20: two threads, the second spawned while the first was polling still,
\* have both ended after stop_detection
C20_Witness ==
  /\ ~is_running
  /\ owner = "idle"
  /\ At(1, "done")
  /\ At(2, "done")
  /\ Len(appended) = LiveSimulated

\* the owning context is inside stop_detection
Stopping == owner \in {"stop_join", "disc_mark", "disc_null"}

\* C21: a stop_detection that has begun returns, whatever the polling threads
\* do, even if they take no further step: the join ends after its timeout and
\* the disconnect follows.
C21_StopReturns == Stopping ~> owner = "idle"

\* C21: stop_detection has returned on a station with a real sensor, the
\* sensor is disconnected, and the polling thread is in its iteration still
C21_Witness ==
  /\ use_real_sensor
  /\ owner = "idle"
  /\ ~is_running
  /\ instrument = None
  /\ thread = Some(1)
  /\ At(1, "read")

\* what the read_temperature of thread t returns in this step, if it returns
ReturnsInStep(t) ==
  /\ poller[t].pc \in {"setup_err_open", "setup_err_test", "setup_err_attr",
                      "read_wait", "read_unmark"}
  /\ poller'[t].pc \in {"check", "status"}

ReturnedInStep(t) ==
  IF poller[t].ch = 1 THEN poller'[t].temperatures.channel1
  ELSE poller'[t].temperatures.channel2

\* thread t is the thread of the session that goes on: stop_detection, and
\* with it disconnect, has not been called since t was started
InSession(t) == is_running /\ thread = Some(t)

\* C22, as claimed: a read_temperature that returns None leaves is_connected
\* false and last_error set; is_connected becomes true again only at the end
\* of a setup_sensor, and a read_temperature that finds it false calls
\* setup_sensor before it reads a register; a read_temperature that returns a
\* value, with no disconnect called during it, leaves is_connected true and
\* last_error None.
C22_FailedReadMarksDown ==
  [][\A t \in Threads :
       /\ (ReturnsInStep(t) /\ ReturnedInStep(t) = None) =>
            (~is_connected' /\ last_error' # None)
       /\ (ReturnsInStep(t) /\ ReturnedInStep(t) # None /\ InSession(t)) =>
            (is_connected' /\ last_error' = None)
       /\ (~is_connected /\ is_connected') => \E u \in Threads : At(u, "setup_mark")
       /\ (At(t, "check") /\ ~is_connected /\ poller'[t] # poller[t]) =>
            poller'[t].pc = "setup_open"]_vars

\* the statements of _detection_loop and of the sensor's methods it calls
PollerPcs == OutsideUpdate \cup {"evict"}

\* C23: no exception leaves read_all_temperatures, whatever the sensor and a
\* disconnect() of the owning context do: every polling thread stays in its
\* loop; the read of channel 1, failed or not, is followed by the read of
\* channel 2, and that one by the return to _detection_loop; the channel of a
\* failed read, and only that one, is None.
C23_ReadAllNeverRaises ==
  /\ [](\A t \in Threads : poller[t].pc \in PollerPcs)
  /\ [][\A t \in Threads :
          ReturnsInStep(t) =>
            /\ poller[t].ch = 1 => (poller'[t].pc = "check" /\ poller'[t].ch = 2)
            /\ poller[t].ch = 2 => poller'[t].pc = "status"
            /\ (ReturnedInStep(t) = None) <=> ~At(t, "read_wait")]_vars

\* C23: channel 1 was read, then disconnect() released the handle under the
\* read of channel 2, which failed on the missing handle; read_all_temperatures
\* has returned both
C23_Witness ==
  /\ At(1, "status")
  /\ poller[1].temperatures.channel1 # None
  /\ poller[1].temperatures.channel2 = None
  /\ last_error = Some(ErrAttr)
  /\ instrument = None

\* C24: when disconnect() returns, is_connected is false and the handle is
\* None, whether the handle was there and closed, was there and failed to
\* close, or was None; and disconnect() leaves last_error as it is.
C24_DisconnectReleases ==
  [][/\ (DisconnectMark \/ DisconnectCloseFails) => UNCHANGED last_error
     /\ DisconnectNull =>
          /\ ~is_connected'
          /\ instrument' = None
          /\ owner' = "idle"
          /\ UNCHANGED last_error]_vars

\* C25: a cycle that fell back to the simulation changes nothing for the next
\* one: use_real_sensor stays as it is; a running thread of a station with a
\* real sensor begins every cycle, also the one after a fallback, with
\* read_temperature(1); it simulates only after read_all_temperatures has
\* returned; and when both channels were read, it stores the sensor's values.
C25_FailoverForOneCycle ==
  [][/\ UNCHANGED use_real_sensor
     /\ CycleKeepsOneSource
     /\ \A t \in Threads :
          /\ (At(t, "loop") /\ poller'[t].pc # "loop" /\ use_real_sensor /\ is_running)
               => (poller'[t].pc = "check" /\ poller'[t].ch = 1)
          /\ (use_real_sensor /\ poller'[t].pc = "simulate" /\ ~At(t, "simulate"))
               => poller[t].pc \in {"status_up", "status_down"}]_vars

\* C25: the first cycle fell back to the simulation, the second has stored
\* what the sensor returned
C25_Witness ==
  /\ use_real_sensor
  /\ At(1, "evict")
  /\ FromSensor(poller[1].temperatures)
  /\ Len(temperature_history) = 2
  /\ temperature_history[1].channel1_temperature \in SimulatedCents1
  /\ temperature_history[1].channel2_temperature \in SimulatedCents2
  /\ temperature_history[2].channel1_temperature \in SensorCents
  /\ temperature_history[2].channel2_temperature \in SensorCents

\* the list that the caller of get_temperature_history holds, as the caller
\* reads it now: its own list, or the station's list when it was handed that
CallerSees == IF copied THEN history_copy[1] ELSE temperature_history

\* C26: the list that get_temperature_history returns is the history of the
\* one state in which the call held the lock, and no later step (an append,
\* an eviction, the clear of a later start_detection, a stop_detection)
\* changes its length or its entries.
C26_ReturnedListIsSnapshot ==
  [][/\ GetTemperatureHistory => CallerSees' = temperature_history
     /\ (history_copy # None /\ ~GetTemperatureHistory) => CallerSees' = CallerSees]_vars

\* a list with readings was returned, a later start_detection cleared the
\* history, and the polling that followed filled it and evicted from it
C26_Witness ==
  /\ history_copy # None
  /\ history_copy[1] # <<>>
  /\ appended # <<>>
  /\ appended[1].timestamp > history_copy[1][Len(history_copy[1])].timestamp
  /\ Len(appended) > Len(temperature_history)
  /\ lock = None

\* C27: whenever the station lock is free to be taken, the current
\* temperatures are absent on both channels or present on both, they are
\* absent exactly when the history is empty, and otherwise they are the two
\* temperatures of the last history entry.
C27_CurrentIsLastReading ==
  lock = None =>
    LET c == current_temperatures
        h == temperature_history
    IN  /\ (c.channel1 = None) = (c.channel2 = None)
        /\ (c.channel1 = None) = (h = <<>>)
        /\ h # <<>> => /\ c.channel1 = Some(h[Len(h)].channel1_temperature)
                       /\ c.channel2 = Some(h[Len(h)].channel2_temperature)

\* two polling threads are alive, the history is full and has been evicted
\* from, its last reading differs from the one before it and from the first,
\* and the lock is free
C27_Witness ==
  /\ lock = None
  /\ Cardinality(Live) = 2
  /\ Len(temperature_history) = HistoryCap
  /\ Len(appended) > HistoryCap
  /\ current_temperatures.channel1 # None
  /\ LET h == temperature_history
     IN  /\ h[HistoryCap].channel2_temperature # h[HistoryCap - 1].channel2_temperature
         /\ h[HistoryCap].channel2_temperature # h[1].channel2_temperature

\* the readings that thread t has appended since stop_detection cleared
\* is_running
AppendedSinceStop(t) ==
  {i \in DOMAIN appended : /\ appended[i].by = t
                           /\ appended[i].timestamp >= stopped_at[1]}

\* C28: once stop_detection has set is_running to false and no
\* start_detection has followed, each polling thread has appended at most
\* one reading more.
C28_OneReadingAfterStop ==
  stopped_at # None => \A t \in Threads : Cardinality(AppendedSinceStop(t)) <= 1

\* two polling threads were in an iteration when is_running was cleared;
\* each has appended the reading of that iteration and has ended
C28_Witness ==
  /\ stopped_at # None
  /\ \A t \in Threads : At(t, "done") /\ Cardinality(AppendedSinceStop(t)) = 1

\* C29, as claimed: in every state of the sensor, also while a polling thread
\* is inside setup_sensor or read_temperature and the owning context is
\* inside disconnect, is_connected holds only with an instrument handle.
C29_ConnectedHasInstrument == is_connected => instrument # None

====
